---- MODULE Spec2Model ----
(***************************************************************************)
(* Socket-Chat: the Socket.IO connection handler of the backend            *)
(* (setupSocketHandlers) and the chat tables behind ChatModel.             *)
(*                                                                         *)
(* Spec        the real-time server: connections, rooms, the in-memory     *)
(*             general-chat history and the events each handler emits.     *)
(* SpecChatDb  the chats / chat_members tables, the trigger on chats and   *)
(*             the ChatModel operations on them.                           *)
(* SpecRooms   the real-time server with named rooms: three connections,   *)
(*             the room and private sends of the client's SocketService.   *)
(* SpecMessages  MessageController.createMessage over the seeded tables.   *)
(* SpecInput   the real-time server under any client input: any token in   *)
(*             the handshake, any message text, events without a payload.  *)
(* SpecGeneralChat  one browser's GeneralChatComponent against the server. *)
(* SpecClientAuth  the browser's AuthService and SocketService: login,     *)
(*             logout, the socket's handshake token, localStorage.         *)
(* SpecNotifications  the notifications of ChatComponent and their timers. *)
(* SpecToasts  ToastService and its timers, with time passing.             *)
(* SpecTyping  the typing indicators of ChatComponent.                     *)
(***************************************************************************)
EXTENDS Integers, Sequences, FiniteSets, TLC

(***************************************************************************)
(* Bounds of the model.                                                    *)
(***************************************************************************)
\* connection ids (socket.id) the server hands out during one run
NumConn == 2
\* entries the general-chat history may grow to (welcome message included)
MaxHistory == 3
\* last reading of the millisecond clock (Date.now())
MaxClock == 3
\* chat rows ChatModel.create may insert during one run
MaxChats == 2
\* rows table messages may grow to during one run
MaxMessages == 2
\* events that may be in flight from the server to the browser
MaxInbox == 2
\* logout() calls of one service that may await their request at once
MaxPending == 2
\* last reading of the browser's clock
MaxUiClock == 4
\* notifications the components may show during one run
MaxNotifications == 3
\* toasts ToastService may create during one run
MaxToasts == 2

Conn == 1..NumConn
\* the connection ids of the runs with named rooms: one more, so that an
\* identity holds two connections while another identity holds a third
RoomConn == 1..(NumConn + 1)
User == {"u1", "u2"}
NoUser == "none"
GENERAL == "general"
Room == {GENERAL, "room1"}

\* id of the welcome message the history is seeded with
WelcomeId == 1

VARIABLES
    sockets,          \* io.sockets.sockets: the open sockets, in insertion order
    closed,           \* socket ids whose disconnect has been processed
    userId,           \* socket.userId of the sockets of the namespace
    rooms,            \* the rooms each socket has joined (socket.rooms)
    generalMessages,  \* the in-memory general-chat history
    now,              \* Date.now()
    emitted,          \* the emit calls of the last handler, in order
    lastOp,           \* the handler that ran last
    running,          \* the server process has not exited
    handshake,        \* the token presented in the last handshake
    roomsBefore,      \* socket.rooms of every socket before the last handler ran
    chats,            \* rows of table chats
    chat_members,     \* rows of table chat_members
    nextChatId,       \* the next fresh chat id (uuidv4())
    found,            \* results of findPrivateChat since the last write
    lastDb,           \* the ChatModel operation or controller call that ran last
    messages,         \* rows of table messages, in insertion order
    cliSocket,        \* the socket id of the browser's connection, 0 when it has none
    inbox,            \* the general-chat events in flight to the browser, in order
    listening,        \* GeneralChatComponent has registered its listeners
    fallback,         \* the component's 2-second timer is pending
    buffered,         \* a get_general_messages the client emitted while disconnected
    messagesLoaded,   \* GeneralChatComponent.messagesLoaded
    chatMessages,     \* GeneralChatComponent.messages
    localStorage,     \* the browser's localStorage: auth_token and current_user
    authToken,        \* authToken of AuthService and of SocketService
    currentUser,      \* currentUser of each service
    authenticatedSubject,  \* the value of each service's authenticatedSubject
    pending,          \* logout() calls of each service awaiting their fetch
    socketAuth,       \* auth.token of SocketService.socket, null while it has none
    ioConnected,      \* SocketService.socket is connected
    loggedIn,         \* the token of SocketService's last successful login/register
    lastAuth,         \* the client call that ran last
    uiNow,            \* the browser's clock (Date.now(), and the clock of its timers)
    timers,           \* the pending setTimeout callbacks
    notifications,    \* notifications of each ChatComponent
    shown,            \* how many notifications were shown so far
    toasts,           \* the value of ToastService.toastsSubject
    toastIdCounter,   \* ToastService.toastIdCounter
    typingUsers,      \* ChatComponent.typingUsers: room id -> usernames
    lastTyping,       \* isTyping of the most recent user_typing event per room and user
    lastUi            \* the component or service call that ran last

srvVars == <<sockets, closed, userId, rooms, generalMessages, now, emitted, lastOp>>
procVars == <<running, handshake, roomsBefore>>
dbVars == <<chats, chat_members, nextChatId, found, lastDb, messages>>
chatVars == <<cliSocket, inbox, listening, fallback, buffered, messagesLoaded, chatMessages>>
authVars == <<localStorage, authToken, currentUser, authenticatedSubject, pending,
              socketAuth, ioConnected, loggedIn, lastAuth>>
uiVars == <<uiNow, timers, notifications, shown, toasts, toastIdCounter,
            typingUsers, lastTyping, lastUi>>
cliVars == <<chatVars, authVars, uiVars>>
vars == <<sockets, closed, userId, rooms, generalMessages, now, emitted, lastOp,
          running, handshake, roomsBefore,
          chats, chat_members, nextChatId, found, lastDb, messages,
          cliSocket, inbox, listening, fallback, buffered, messagesLoaded, chatMessages,
          localStorage, authToken, currentUser, authenticatedSubject, pending,
          socketAuth, ioConnected, loggedIn, lastAuth,
          uiNow, timers, notifications, shown, toasts, toastIdCounter,
          typingUsers, lastTyping, lastUi>>

(***************************************************************************)
(* Helpers on sequences.                                                   *)
(***************************************************************************)
Range(s) == {s[i] : i \in 1..Len(s)}

Without(s, x) == SelectSeq(s, LAMBDA y : y # x)

Count(s, x) == Cardinality({i \in 1..Len(s) : s[i] = x})

(***************************************************************************)
(* Message texts.                                                          *)
(***************************************************************************)
\* message texts, as sequences of characters: a word, one blank, nothing,
\* a word after a blank
Content == {<<"h", "i">>, <<" ">>, << >>, <<" ", "h">>}

\* the text of a well-formed message
Text == <<"h", "i">>

RECURSIVE TrimStart(_)
\* the text without its leading blanks
TrimStart(content) ==
    IF content # << >> /\ Head(content) = " " THEN TrimStart(Tail(content)) ELSE content

RECURSIVE TrimEnd(_)
\* the text without its trailing blanks
TrimEnd(content) ==
    IF content # << >> /\ content[Len(content)] = " "
    THEN TrimEnd(SubSeq(content, 1, Len(content) - 1))
    ELSE content

\* String.prototype.trim() and SQL trim(content)
Trim(content) == TrimEnd(TrimStart(content))

(***************************************************************************)
(* The real-time server.                                                   *)
(***************************************************************************)
Open == Range(sockets)

\* number of open connections of identity u
OpenCount(u) == Cardinality({c \in Open : userId[c] = u})

\* socket ids are fresh: the next one never used before
NextSocketId == Cardinality(Open \cup closed) + 1

\* one emit call: event name, recipient sockets in delivery order, payload
Emit(ev, to, data) == [ev |-> ev, to |-> to, data |-> data]

\* socket.emit: to the socket itself
ToSelf(s) == <<s>>

\* socket.broadcast: every socket of the namespace socks except s
ToOthers(socks, s) == Without(socks, s)

\* io.emit: every socket of the namespace socks
ToAll(socks) == socks

\* a registry of every socket that ever connected, never pruned on disconnect
ToRoom_NeverPruned(socks, rms, r) == [i \in 1..(NextSocketId - 1) |-> i]

\* io.to(r): the sockets of the namespace that are in room r
ToRoom(socks, rms, r) == SelectSeq(socks, LAMBDA c : r \in rms[c])

\* the filter compares socket ids instead of user ids
OtherOnlineUsers_BySocketId(socks, uid, s) ==
    LET others == SelectSeq(socks, LAMBDA c : uid[c] # NoUser /\ c # s)
    IN  [i \in 1..Len(others) |-> uid[others[i]]]

\* Array.from(io.sockets.sockets.values()).filter(userId !== socket.userId).map(...)
OtherOnlineUsers(socks, uid, s) ==
    LET others == SelectSeq(socks, LAMBDA c : uid[c] # NoUser /\ uid[c] # uid[s])
    IN  [i \in 1..Len(others) |-> uid[others[i]]]

\* Array.from(io.sockets.sockets.values()).filter(userId !== undefined).map(...)
AllOnlineUsers(socks, uid) ==
    LET all == SelectSeq(socks, LAMBDA c : uid[c] # NoUser)
    IN  [i \in 1..Len(all) |-> uid[all[i]]]

\* socket.handshake.auth.token: a JWT names a user, is signed with the
\* server's secret or not, and is past its expiry or not
Token == [userId : User, signed : BOOLEAN, expired : BOOLEAN]

\* the handshake carries no token
NoToken == [userId |-> NoUser, signed |-> FALSE, expired |-> FALSE]

\* jwt.verify(token, JWT_SECRET): the userId of the decoded payload; it throws
\* (NoUser) on a signature made with another secret and on an expired token
JwtVerify(token) ==
    IF token.signed /\ ~token.expired THEN token.userId ELSE NoUser

\* the catch block lets the connection through
Authenticate_CatchCallsNext(token) ==
    IF token = NoToken THEN "Authentication token required" ELSE "next"

\* the io.use middleware: what it calls next with; "next" stands for next()
Authenticate(token) ==
    IF token = NoToken THEN "Authentication token required"
    ELSE IF JwtVerify(token) # NoUser THEN "next"
    ELSE "Authentication failed"

SrvInit ==
    /\ sockets = << >>
    /\ closed = {}
    /\ userId = [c \in RoomConn |-> NoUser]
    /\ rooms = [c \in RoomConn |-> {}]
    /\ generalMessages = << [id |-> WelcomeId, sender |-> "system", chatId |-> GENERAL,
                             content |-> Text] >>
    /\ now \in (WelcomeId + 1)..MaxClock
    /\ emitted = << >>
    /\ lastOp = [op |-> "init", conn |-> 0, user |-> NoUser, room |-> ""]
    /\ running = TRUE
    /\ handshake = NoToken
    /\ roomsBefore = [c \in RoomConn |-> {}]

\* the millisecond clock advances
Tick ==
    /\ now < MaxClock
    /\ now' \in (now + 1)..MaxClock
    /\ emitted' = << >>
    /\ lastOp' = [op |-> "tick", conn |-> 0, user |-> NoUser, room |-> ""]
    /\ UNCHANGED <<sockets, closed, userId, rooms, generalMessages>>

\* io.on('connection'): the handshake verified u; the socket is in the namespace
Connect(s, u) ==
    /\ running
    /\ s = NextSocketId
    /\ LET socks == Append(sockets, s)
           uid == [userId EXCEPT ![s] = u]
       IN  /\ sockets' = socks
           /\ userId' = uid
           /\ rooms' = [rooms EXCEPT ![s] = {GENERAL}]
           /\ emitted' =
                << Emit("general_messages", ToSelf(s), generalMessages),
                   Emit("online_users", ToSelf(s), OtherOnlineUsers(socks, uid, s)),
                   Emit("user_joined", ToOthers(socks, s), u),
                   Emit("online_users_updated", ToAll(socks), AllOnlineUsers(socks, uid)) >>
    /\ lastOp' = [op |-> "connect", conn |-> s, user |-> u, room |-> ""]
    /\ UNCHANGED <<closed, generalMessages, now>>

\* a client's handshake with auth token `token`: the middleware runs, and only
\* after next() the socket joins the namespace and 'connection' is emitted
\* with socket.userId as decoded. A refused client gets connect_error; it is
\* no socket of the namespace.
Handshake(s, token) ==
    /\ handshake' = token
    /\ IF Authenticate(token) = "next"
       THEN Connect(s, JwtVerify(token))
       ELSE /\ running
            /\ s = NextSocketId
            /\ emitted' = << >>
            /\ lastOp' = [op |-> "connect_error", conn |-> s, user |-> NoUser, room |-> ""]
            /\ UNCHANGED <<sockets, closed, userId, rooms, generalMessages, now>>

\* socket.on('get_general_messages')
GetGeneralMessages(s) ==
    /\ s \in Open
    /\ emitted' = << Emit("general_messages", ToSelf(s), generalMessages) >>
    /\ lastOp' = [op |-> "get_general_messages", conn |-> s, user |-> userId[s], room |-> ""]
    /\ UNCHANGED <<sockets, closed, userId, rooms, generalMessages, now>>

\* the new message is put at the front of the history (unshift)
SendGeneralMessage_Unshift(s, content) ==
    /\ s \in Open
    /\ Len(generalMessages) < MaxHistory
    /\ LET message == [id |-> now, sender |-> userId[s], chatId |-> GENERAL,
                       content |-> content]
       IN  /\ generalMessages' = <<message>> \o generalMessages
           /\ emitted' = << Emit("general_message", ToRoom(sockets, rooms, GENERAL), message) >>
    /\ lastOp' = [op |-> "send_general_message", conn |-> s, user |-> userId[s], room |-> GENERAL]
    /\ UNCHANGED <<sockets, closed, userId, rooms, now>>

\* socket.on('send_general_message') with payload {content}
SendGeneralMessage(s, content) ==
    /\ s \in Open
    /\ Len(generalMessages) < MaxHistory
    /\ LET message == [id |-> now, sender |-> userId[s], chatId |-> GENERAL,
                       content |-> content]
       IN  /\ generalMessages' = Append(generalMessages, message)
           /\ emitted' = << Emit("general_message", ToRoom(sockets, rooms, GENERAL), message) >>
    /\ lastOp' = [op |-> "send_general_message", conn |-> s, user |-> userId[s], room |-> GENERAL]
    /\ UNCHANGED <<sockets, closed, userId, rooms, now>>

\* socket.on('get_online_users')
GetOnlineUsers(s) ==
    /\ s \in Open
    /\ emitted' = << Emit("online_users", ToSelf(s), OtherOnlineUsers(sockets, userId, s)) >>
    /\ lastOp' = [op |-> "get_online_users", conn |-> s, user |-> userId[s], room |-> ""]
    /\ UNCHANGED <<sockets, closed, userId, rooms, generalMessages, now>>

\* a join of a room the socket is in already is answered with an error
JoinRoom_RejectsRejoin(s, r) ==
    /\ s \in Open
    /\ rooms' = [rooms EXCEPT ![s] = @ \cup {r}]
    /\ emitted' = << Emit(IF r \in rooms[s] THEN "error" ELSE "room_joined", ToSelf(s), r) >>
    /\ lastOp' = [op |-> "join_room", conn |-> s, user |-> userId[s], room |-> r]
    /\ UNCHANGED <<sockets, closed, userId, generalMessages, now>>

\* socket.on('join_room')
JoinRoom(s, r) ==
    /\ s \in Open
    /\ rooms' = [rooms EXCEPT ![s] = @ \cup {r}]
    /\ emitted' = << Emit("room_joined", ToSelf(s), r) >>
    /\ lastOp' = [op |-> "join_room", conn |-> s, user |-> userId[s], room |-> r]
    /\ UNCHANGED <<sockets, closed, userId, generalMessages, now>>

\* the handler leaves every room of the socket instead of the one named
LeaveRoom_LeavesAll(s, r) ==
    /\ s \in Open
    /\ rooms' = [rooms EXCEPT ![s] = {}]
    /\ emitted' = << Emit("room_left", ToSelf(s), r) >>
    /\ lastOp' = [op |-> "leave_room", conn |-> s, user |-> userId[s], room |-> r]
    /\ UNCHANGED <<sockets, closed, userId, generalMessages, now>>

\* socket.on('leave_room')
LeaveRoom(s, r) ==
    /\ s \in Open
    /\ rooms' = [rooms EXCEPT ![s] = @ \ {r}]
    /\ emitted' = << Emit("room_left", ToSelf(s), r) >>
    /\ lastOp' = [op |-> "leave_room", conn |-> s, user |-> userId[s], room |-> r]
    /\ UNCHANGED <<sockets, closed, userId, generalMessages, now>>

\* the socket is taken out of the namespace but stays in its rooms
Disconnect_KeepsRooms(s) ==
    /\ s \in Open
    /\ LET socks == Without(sockets, s)
       IN  /\ sockets' = socks
           /\ userId' = [userId EXCEPT ![s] = NoUser]
           /\ closed' = closed \cup {s}
           /\ emitted' =
                << Emit("user_left", ToOthers(socks, s), userId[s]),
                   Emit("online_users_updated", ToOthers(socks, s),
                        AllOnlineUsers(socks, userId)) >>
    /\ lastOp' = [op |-> "disconnect", conn |-> s, user |-> userId[s], room |-> ""]
    /\ UNCHANGED <<rooms, generalMessages, now>>

\* socket.on('disconnect'): the socket has left its rooms and the namespace
Disconnect(s) ==
    /\ s \in Open
    /\ LET socks == Without(sockets, s)
       IN  /\ sockets' = socks
           /\ rooms' = [rooms EXCEPT ![s] = {}]
           /\ userId' = [userId EXCEPT ![s] = NoUser]
           /\ closed' = closed \cup {s}
           /\ emitted' =
                << Emit("user_left", ToOthers(socks, s), userId[s]),
                   Emit("online_users_updated", ToOthers(socks, s),
                        AllOnlineUsers(socks, userId)) >>
    /\ lastOp' = [op |-> "disconnect", conn |-> s, user |-> userId[s], room |-> ""]
    /\ UNCHANGED <<generalMessages, now>>

\* the events whose listeners read a property of their payload
PayloadEvent == {"send_general_message", "join_room", "leave_room"}

\* an event of PayloadEvent arrives without a payload: the listener reads a
\* property of undefined; nothing catches the TypeError, so it reaches the
\* process's uncaughtException handler, which exits. No listener runs for the
\* sockets the exit closes. (The history is not cleared: nothing reads it.)
MalformedEvent(s, ev) ==
    /\ s \in Open
    /\ running' = FALSE
    /\ sockets' = << >>
    /\ closed' = closed \cup Open
    /\ userId' = [c \in RoomConn |-> NoUser]
    /\ rooms' = [c \in RoomConn |-> {}]
    /\ emitted' = << >>
    /\ lastOp' = [op |-> "malformed", conn |-> s, user |-> userId[s], room |-> "",
                  event |-> ev]
    /\ UNCHANGED <<generalMessages, now>>

\* SocketService.sendRoomMessage: the client emits 'send_room_message'; the
\* connection handler registers no listener for it, so the event is dropped
SendRoomMessage(s, r) ==
    /\ s \in Open
    /\ emitted' = << >>
    /\ lastOp' = [op |-> "send_room_message", conn |-> s, user |-> userId[s], room |-> r]
    /\ UNCHANGED <<sockets, closed, userId, rooms, generalMessages, now>>

\* SocketService.sendPrivateMessage: the client emits 'send_private_message'
\* for recipient t; the connection handler registers no listener for it
SendPrivateMessage(s, t) ==
    /\ s \in Open
    /\ emitted' = << >>
    /\ lastOp' = [op |-> "send_private_message", conn |-> s, user |-> userId[s],
                  room |-> "", recipientId |-> t]
    /\ UNCHANGED <<sockets, closed, userId, rooms, generalMessages, now>>

\* the disconnect listener runs again for a socket that is gone
CloseAgain_RunsListener(s) ==
    /\ s \notin Open
    /\ emitted' =
         << Emit("user_left", ToOthers(sockets, s), userId[s]),
            Emit("online_users_updated", ToOthers(sockets, s),
                 AllOnlineUsers(sockets, userId)) >>
    /\ lastOp' = [op |-> "close_again", conn |-> s, user |-> userId[s], room |-> ""]
    /\ UNCHANGED <<sockets, closed, userId, rooms, generalMessages, now>>

\* a close is reported for a socket that is not in the namespace: one whose
\* disconnect has been processed (a transport that closes after a timeout, a
\* second client disconnect) or one that never connected. Socket.IO emits
\* 'disconnect' once per connected socket, so no socket.on('disconnect')
\* listener runs
CloseAgain(s) ==
    /\ s \notin Open
    /\ emitted' = << >>
    /\ lastOp' = [op |-> "close_again", conn |-> s, user |-> userId[s], room |-> ""]
    /\ UNCHANGED <<sockets, closed, userId, rooms, generalMessages, now>>

(***************************************************************************)
(* The chat tables.                                                        *)
(***************************************************************************)
ChatId == 1..MaxChats
ChatType == {"private", "room"}

\* SQL NULL, and the mark of a pair findPrivateChat was not asked about
NULL == 0
NotAsked == -1

\* the rows of chat_members of chat id
MemberRows(members, id) == {m \in members : m.chat_id = id}

IsChatMember(members, id, u) == \E m \in members : m.chat_id = id /\ m.user_id = u

\* SELECT user_id FROM chat_members WHERE chat_id = NEW.id LIMIT 1 [OFFSET k]:
\* no ORDER BY, so any row may come first; no row gives NULL
LimitOne(members, id, offset) ==
    IF Cardinality(MemberRows(members, id)) <= offset
    THEN {NULL}
    ELSE {m.user_id : m \in MemberRows(members, id)}

\* prevent_duplicate_private_chats(), run AFTER INSERT ON chats for the row new:
\* TRUE when it raises. first and second are the results of its two subqueries;
\* a comparison with NULL is never true.
TriggerRaises(new, rows, members, first, second) ==
    /\ new.chat_type = "private"
    /\ \E c \in rows :
         /\ c.chat_type = "private"
         /\ c.id # new.id
         /\ first # NULL /\ IsChatMember(members, c.id, first)
         /\ second # NULL /\ IsChatMember(members, c.id, second)

\* the rows findPrivateChat's query selects
PrivateChatRows(rows, members, userId1, userId2) ==
    {c \in rows :
        /\ c.chat_type = "private"
        /\ c.is_active
        /\ IsChatMember(members, c.id, userId1)
        /\ IsChatMember(members, c.id, userId2)
        /\ userId1 # userId2}

\* the ordered pairs of two different users
UserPair == {p \in User \X User : p[1] # p[2]}

DbInit ==
    /\ chats = {}
    /\ chat_members = {}
    /\ nextChatId = 1
    /\ found = [p \in UserPair |-> NotAsked]
    /\ lastDb = [op |-> "init", chat |-> NULL, ok |-> TRUE]
    /\ messages = << >>

NothingFound == [p \in UserPair |-> NotAsked]

\* ChatModel.create: one transaction inserts the chat row (the trigger runs on
\* it) and then the creator's membership row; an exception rolls both back
Create(chat_type, created_by) ==
    /\ nextChatId <= MaxChats
    /\ LET new == [id |-> nextChatId, chat_type |-> chat_type,
                   created_by |-> created_by, is_active |-> TRUE]
       IN  \E first \in LimitOne(chat_members, new.id, 0),
              second \in LimitOne(chat_members, new.id, 1) :
             IF TriggerRaises(new, chats \cup {new}, chat_members, first, second)
             THEN /\ lastDb' = [op |-> "create", chat |-> new.id, ok |-> FALSE]
                  /\ UNCHANGED <<chats, chat_members>>
             ELSE /\ chats' = chats \cup {new}
                  /\ chat_members' = chat_members \cup
                        {[chat_id |-> new.id, user_id |-> created_by, role |-> "admin"]}
                  /\ lastDb' = [op |-> "create", chat |-> new.id, ok |-> TRUE]
    /\ nextChatId' = nextChatId + 1
    /\ found' = NothingFound

\* ChatModel.addMember: INSERT ... ON CONFLICT (chat_id, user_id) DO NOTHING
AddMember(chatId, u) ==
    /\ \E c \in chats : c.id = chatId
    /\ chat_members' =
         IF IsChatMember(chat_members, chatId, u)
         THEN chat_members
         ELSE chat_members \cup {[chat_id |-> chatId, user_id |-> u, role |-> "member"]}
    /\ lastDb' = [op |-> "addMember", chat |-> chatId, ok |-> TRUE]
    /\ found' = NothingFound
    /\ UNCHANGED <<chats, nextChatId>>

\* ChatModel.removeMember: DELETE FROM chat_members WHERE chat_id AND user_id
RemoveMember(chatId, u) ==
    /\ \E c \in chats : c.id = chatId
    /\ chat_members' = {m \in chat_members : ~(m.chat_id = chatId /\ m.user_id = u)}
    /\ lastDb' = [op |-> "removeMember", chat |-> chatId, ok |-> TRUE]
    /\ found' = NothingFound
    /\ UNCHANGED <<chats, nextChatId>>

\* ChatModel.deleteChat: UPDATE chats SET is_active = false WHERE id
DeleteChat(chatId) ==
    /\ \E c \in chats : c.id = chatId
    /\ chats' = {IF c.id = chatId THEN [c EXCEPT !.is_active = FALSE] ELSE c : c \in chats}
    /\ lastDb' = [op |-> "deleteChat", chat |-> chatId, ok |-> TRUE]
    /\ found' = NothingFound
    /\ UNCHANGED <<chat_members, nextChatId>>

\* ChatModel.findPrivateChat: queryOne gives the first selected row, or null;
\* the query has no ORDER BY, so any selected row may be the first
FindPrivateChat(userId1, userId2) ==
    /\ LET rows == PrivateChatRows(chats, chat_members, userId1, userId2)
       IN  \E result \in (IF rows = {} THEN {NULL} ELSE {c.id : c \in rows}) :
             /\ found' = IF userId1 # userId2
                         THEN [found EXCEPT ![<<userId1, userId2>>] = result]
                         ELSE found
             /\ lastDb' = [op |-> "findPrivateChat", chat |-> result, ok |-> TRUE]
    /\ UNCHANGED <<chats, chat_members, nextChatId>>

\* ChatModel.findById: the active chat row with that id, if any; the columns
\* it selects do not include the members
FindById(rows, id) == {c \in rows : c.id = id /\ c.is_active}

\* the check reads a chat object without members as having every user in it
HasMember_AbsentMeansMember(chat, u) ==
    "members" \notin DOMAIN chat \/ u \in chat.members

\* chat.members?.some(member => member.id === user.userId): undefined, so
\* falsy, for a chat object that has no members property
HasMember(chat, u) == "members" \in DOMAIN chat /\ u \in chat.members

\* the HTTP status MessageController.createMessage answers with
CreateMessageStatus(u, chat_id, content) ==
    IF u = NoUser THEN 401
    ELSE IF chat_id = NULL \/ content = << >> THEN 400
    ELSE IF FindById(chats, chat_id) = {} THEN 404
    ELSE IF \A chat \in FindById(chats, chat_id) : ~HasMember(chat, u) THEN 403
    ELSE IF Trim(content) = << >> THEN 500
    ELSE 201

\* MessageController.createMessage for the authenticated user u (NoUser: no
\* req.user); MessageModel.create inserts the row, and the insert raises on
\* CONSTRAINT messages_content_not_empty
CreateMessage(u, chat_id, content) ==
    /\ Len(messages) < MaxMessages
    /\ LET status == CreateMessageStatus(u, chat_id, content)
       IN  /\ messages' =
                IF status = 201
                THEN Append(messages, [chat_id |-> chat_id, sender_id |-> u, content |-> content])
                ELSE messages
           /\ lastDb' = [op |-> "createMessage", chat |-> chat_id, ok |-> status = 201,
                         user |-> u, content |-> content, status |-> status]
    /\ UNCHANGED <<chats, chat_members, nextChatId, found>>

(***************************************************************************)
(* The browser: GeneralChatComponent on top of SocketService.              *)
(***************************************************************************)
\* the identity logged in at the browser, and the identity of the others
ClientUser == "u1"
PeerUser == "u2"

ChatInit ==
    /\ cliSocket = 0
    /\ inbox = << >>
    /\ listening = FALSE
    /\ fallback = FALSE
    /\ buffered = FALSE
    /\ messagesLoaded = FALSE
    /\ chatMessages = << >>

\* the events the component listens for
ChatEvent == {"general_messages", "general_message"}

\* the emit calls of em that reach socket c and carry a general-chat event,
\* as the events the browser will receive
ToBrowser(em, c) ==
    LET mine == SelectSeq(em, LAMBDA e : e.ev \in ChatEvent /\ c \in Range(e.to))
    IN  [i \in 1..Len(mine) |-> [ev |-> mine[i].ev, data |-> mine[i].data]]

\* the Message the listeners build from a server message
ToMessage(msg) ==
    [id |-> msg.id, content |-> msg.content, sender |-> msg.sender,
     isOwn |-> msg.sender = ClientUser]

\* SocketService.connect: the browser's socket connects; the server's
\* connection handler emits the history to it
BrowserConnect(s) ==
    /\ cliSocket = 0
    /\ Connect(s, ClientUser)
    /\ cliSocket' = s
    /\ inbox' = ToBrowser(emitted', s)
    /\ UNCHANGED <<listening, fallback, buffered, messagesLoaded, chatMessages>>

\* the socket of another user connects
PeerConnect(s) ==
    /\ Connect(s, PeerUser)
    /\ UNCHANGED chatVars

\* a connected socket sends to the general chat (the browser's sendMessage or
\* a peer's); the broadcast is on its way to the browser if it is connected
ChatSend(s) ==
    /\ Len(inbox) < MaxInbox
    /\ SendGeneralMessage(s, Text)
    /\ inbox' = inbox \o ToBrowser(emitted', cliSocket)
    /\ UNCHANGED <<cliSocket, listening, fallback, buffered, messagesLoaded, chatMessages>>

\* the browser's socket disconnects; what was in flight to it is lost
BrowserDisconnect ==
    /\ cliSocket # 0
    /\ Disconnect(cliSocket)
    /\ cliSocket' = 0
    /\ inbox' = << >>
    /\ UNCHANGED <<listening, fallback, buffered, messagesLoaded, chatMessages>>

\* GeneralChatComponent.ngOnInit: setupSocketListeners, loadInitialMessages
NgOnInit ==
    /\ ~listening
    /\ listening' = TRUE
    /\ fallback' = ~messagesLoaded
    /\ UNCHANGED <<cliSocket, inbox, buffered, messagesLoaded, chatMessages>>
    /\ UNCHANGED srvVars

\* the browser receives the next event; without listeners it is dropped
Receive ==
    /\ inbox # << >>
    /\ inbox' = Tail(inbox)
    /\ LET event == Head(inbox)
       IN  IF ~listening
           THEN UNCHANGED <<messagesLoaded, chatMessages>>
           ELSE IF event.ev = "general_messages"
           THEN IF ~messagesLoaded
                THEN /\ chatMessages' = [i \in 1..Len(event.data) |-> ToMessage(event.data[i])]
                     /\ messagesLoaded' = TRUE
                ELSE UNCHANGED <<messagesLoaded, chatMessages>>
           ELSE /\ chatMessages' = Append(chatMessages, ToMessage(event.data))
                /\ UNCHANGED messagesLoaded
    /\ UNCHANGED <<cliSocket, listening, fallback, buffered>>
    /\ UNCHANGED srvVars

\* the 2-second timer of loadInitialMessages fires: without a loaded history
\* the component emits get_general_messages; socket.io-client keeps an emit
\* made while disconnected and sends it on connect
FallbackTimer ==
    /\ fallback
    /\ fallback' = FALSE
    /\ IF messagesLoaded
       THEN UNCHANGED <<srvVars, inbox, buffered>>
       ELSE IF cliSocket = 0
       THEN buffered' = TRUE /\ UNCHANGED <<srvVars, inbox>>
       ELSE /\ Len(inbox) < MaxInbox
            /\ GetGeneralMessages(cliSocket)
            /\ inbox' = inbox \o ToBrowser(emitted', cliSocket)
            /\ UNCHANGED buffered
    /\ UNCHANGED <<cliSocket, listening, messagesLoaded, chatMessages>>

\* the buffered get_general_messages is sent once the socket is connected
FlushBuffered ==
    /\ buffered
    /\ cliSocket # 0
    /\ Len(inbox) < MaxInbox
    /\ buffered' = FALSE
    /\ GetGeneralMessages(cliSocket)
    /\ inbox' = inbox \o ToBrowser(emitted', cliSocket)
    /\ UNCHANGED <<cliSocket, listening, fallback, messagesLoaded, chatMessages>>

(***************************************************************************)
(* The browser's two authentication holders: AuthService and the           *)
(* token-authenticated SocketService, over one localStorage.               *)
(***************************************************************************)
Service == {"AuthService", "SocketService"}

\* null, of the fields and the localStorage items that hold strings
Null == "null"

\* the tokens the server issues at login or register
JwtToken == {"A", "B"}

\* the user a login returns next to its token
UserOf(t) == IF t = "A" THEN "u1" ELSE "u2"

\* localStorage with neither item
NoItems == [auth_token |-> Null, current_user |-> Null]

\* loadAuthFromStorage of both constructors, then initializeSocket of
\* SocketService's: the state after construction over a given localStorage
Constructed(stored) ==
    LET token == IF stored.auth_token # Null /\ stored.current_user # Null
                 THEN stored.auth_token ELSE Null
    IN  /\ localStorage = stored
        /\ authToken = [svc \in Service |-> token]
        /\ currentUser = [svc \in Service |->
                             IF token # Null THEN stored.current_user ELSE Null]
        /\ authenticatedSubject = [svc \in Service |-> token # Null]
        /\ pending = [svc \in Service |-> 0]
        /\ socketAuth = token
        /\ ioConnected = FALSE
        /\ loggedIn = Null
        /\ lastAuth = [op |-> "init", svc |-> "", token |-> Null, outcome |-> ""]

\* the services of a browser that holds no session
AuthInit == Constructed(NoItems)

\* the services of a browser that may hold the session of an earlier visit
AuthInitStored ==
    \E stored \in {NoItems} \cup {[auth_token |-> t, current_user |-> UserOf(t)] : t \in JwtToken} :
        Constructed(stored)

SaveAuthToStorage(svc, token, user) ==
    /\ localStorage' = [auth_token |-> token, current_user |-> user]
    /\ authToken' = [authToken EXCEPT ![svc] = token]
    /\ currentUser' = [currentUser EXCEPT ![svc] = user]
    /\ authenticatedSubject' = [authenticatedSubject EXCEPT ![svc] = TRUE]

ClearAuthFromStorage(svc) ==
    /\ localStorage' = NoItems
    /\ authToken' = [authToken EXCEPT ![svc] = Null]
    /\ currentUser' = [currentUser EXCEPT ![svc] = Null]
    /\ authenticatedSubject' = [authenticatedSubject EXCEPT ![svc] = FALSE]

\* login() or register() of a service, from the moment its response has
\* arrived: a response that is not ok throws before anything is stored
Login(svc, token, ok) ==
    /\ IF ok
       THEN /\ SaveAuthToStorage(svc, token, UserOf(token))
            /\ loggedIn' = IF svc = "SocketService" THEN token ELSE loggedIn
       ELSE UNCHANGED <<localStorage, authToken, currentUser, authenticatedSubject, loggedIn>>
    /\ lastAuth' = [op |-> "login", svc |-> svc, token |-> token,
                    outcome |-> IF ok THEN "ok" ELSE "failed"]
    /\ UNCHANGED <<pending, socketAuth, ioConnected>>

\* the finally block of logout(): clearAuthFromStorage, then disconnect()
\* (SocketService) or router.navigate (AuthService)
LogoutFinally(svc) ==
    /\ ClearAuthFromStorage(svc)
    /\ ioConnected' = IF svc = "SocketService" THEN FALSE ELSE ioConnected
    /\ UNCHANGED <<socketAuth, loggedIn>>

\* logout() up to its await: with a token it sends the request and waits,
\* without one it runs to its end
Logout(svc) ==
    IF authToken[svc] # Null
    THEN /\ pending[svc] < MaxPending
         /\ pending' = [pending EXCEPT ![svc] = @ + 1]
         /\ lastAuth' = [op |-> "logout_fetch", svc |-> svc, token |-> authToken[svc],
                         outcome |-> ""]
         /\ UNCHANGED <<localStorage, authToken, currentUser, authenticatedSubject,
                        socketAuth, ioConnected, loggedIn>>
    ELSE /\ LogoutFinally(svc)
         /\ lastAuth' = [op |-> "logout", svc |-> svc, token |-> Null, outcome |-> "skipped"]
         /\ UNCHANGED pending

\* what may become of the logout request
FetchOutcome == {"ok", "failed", "threw"}

\* the state is cleared at the end of the try block instead of in finally
LogoutSettles_ClearsInTry(svc, outcome) ==
    /\ pending[svc] > 0
    /\ pending' = [pending EXCEPT ![svc] = @ - 1]
    /\ IF outcome = "threw"
       THEN UNCHANGED <<localStorage, authToken, currentUser, authenticatedSubject,
                        socketAuth, ioConnected, loggedIn>>
       ELSE LogoutFinally(svc)
    /\ lastAuth' = [op |-> "logout", svc |-> svc, token |-> Null, outcome |-> outcome]

\* the rest of logout() once the request has settled
LogoutSettles(svc, outcome) ==
    /\ pending[svc] > 0
    /\ pending' = [pending EXCEPT ![svc] = @ - 1]
    /\ LogoutFinally(svc)
    /\ lastAuth' = [op |-> "logout", svc |-> svc, token |-> Null, outcome |-> outcome]

\* what the server, or the network, answers to a handshake
HandshakeOutcome == {"next", "Authentication failed", "xhr poll error"}

\* SocketService.connect(), with the connect or connect_error event that
\* follows; socket.connect() on a connected socket does nothing
SocketConnect(outcome) ==
    LET token == authToken["SocketService"]
        auth == IF socketAuth # Null THEN socketAuth ELSE token
        shakes == token # Null /\ ~ioConnected
    IN  /\ socketAuth' = IF token # Null THEN auth ELSE socketAuth
        /\ lastAuth' = [op |-> "connect", svc |-> "SocketService",
                        token |-> IF shakes THEN auth ELSE Null,
                        outcome |-> IF shakes THEN outcome ELSE "none"]
        /\ IF shakes /\ outcome = "Authentication failed"
           THEN ClearAuthFromStorage("SocketService")
           ELSE UNCHANGED <<localStorage, authToken, currentUser, authenticatedSubject>>
        /\ ioConnected' = (ioConnected \/ (shakes /\ outcome = "next"))
        /\ UNCHANGED <<pending, loggedIn>>

\* SocketService.disconnect()
SocketDisconnect ==
    /\ ioConnected' = FALSE
    /\ lastAuth' = [op |-> "disconnect", svc |-> "SocketService", token |-> Null,
                    outcome |-> ""]
    /\ UNCHANGED <<localStorage, authToken, currentUser, authenticatedSubject, pending,
                   socketAuth, loggedIn>>

(***************************************************************************)
(* The browser's timed lists: the notifications of ChatComponent, the      *)
(* toasts of ToastService, and the typing indicators.  One step of the     *)
(* clock stands for 2.5 seconds.                                           *)
(***************************************************************************)
\* chat.component.ts holds two classes named ChatComponent: the first shows
\* notifications with addNotification, the second with showNotification
ChatComponent == {"first", "second"}

\* the value of a property that an object does not have
Undefined == -1

\* setTimeout(..., 5000) of the notifications
NotificationDelay == 2

\* duration of a toast when none is given, and of an error toast
DefaultDuration == 2
ErrorDuration == 3

\* the durations a caller may pass to a show method; 0 stands for none
Duration == {0, 1}

\* showWarning and showInfo pass their duration on as showSuccess does
ToastType == {"success", "error"}

UiInit ==
    /\ uiNow = 0
    /\ timers = {}
    /\ notifications = [c \in ChatComponent |-> << >>]
    /\ shown = 0
    /\ toasts = << >>
    /\ toastIdCounter = 0
    /\ typingUsers = << >>
    /\ lastTyping = [r \in Room |-> [u \in User \cup {"u3"} |-> FALSE]]
    /\ lastUi = [op |-> "init", comp |-> "", id |-> Undefined, nr |-> 0, removed |-> {}]

\* the clock advances; a timer that is due runs before the clock moves on
UiTick ==
    /\ uiNow < MaxUiClock
    /\ \A t \in timers : t.due > uiNow
    /\ uiNow' = uiNow + 1
    /\ lastUi' = [op |-> "tick", comp |-> "", id |-> Undefined, nr |-> 0, removed |-> {}]
    /\ UNCHANGED <<timers, notifications, shown, toasts, toastIdCounter,
                   typingUsers, lastTyping>>

\* notifications.filter(n => n.id !== id)
WithoutId(list, id) == SelectSeq(list, LAMBDA n : n.id # id)

\* the creation numbers of the entries of a list
Numbers(list) == {list[i].nr : i \in 1..Len(list)}

\* addNotification of the first component, showNotification of the second:
\* the entry gets id Date.now(); the timer of the first removes that id,
\* the timer of the second the id of the object it was called with, and no
\* caller passes an object that has an id
ShowNotification(c) ==
    /\ shown < MaxNotifications
    /\ uiNow + NotificationDelay <= MaxUiClock
    /\ shown' = shown + 1
    /\ notifications' = [notifications EXCEPT ![c] =
                             << [id |-> uiNow, timestamp |-> uiNow, nr |-> shown + 1] >> \o @]
    /\ timers' = timers \cup {[owner |-> c,
                                id |-> IF c = "first" THEN uiNow ELSE Undefined,
                                nr |-> shown + 1,
                                due |-> uiNow + NotificationDelay]}
    /\ lastUi' = [op |-> "show", comp |-> c, id |-> uiNow, nr |-> shown + 1, removed |-> {}]
    /\ UNCHANGED <<uiNow, toasts, toastIdCounter, typingUsers, lastTyping>>

\* removeNotification(id) called from the template with the id of an entry
RemoveNotification(c, id) ==
    /\ \E i \in 1..Len(notifications[c]) : notifications[c][i].id = id
    /\ notifications' = [notifications EXCEPT ![c] = WithoutId(@, id)]
    /\ lastUi' = [op |-> "remove", comp |-> c, id |-> id, nr |-> 0,
                  removed |-> Numbers(notifications[c]) \ Numbers(WithoutId(notifications[c], id))]
    /\ UNCHANGED <<uiNow, timers, shown, toasts, toastIdCounter, typingUsers, lastTyping>>

\* the setTimeout callback of a notification
NotificationTimer(t) ==
    /\ t \in timers
    /\ t.owner \in ChatComponent
    /\ t.due <= uiNow
    /\ timers' = timers \ {t}
    /\ notifications' = [notifications EXCEPT ![t.owner] = WithoutId(@, t.id)]
    /\ lastUi' = [op |-> "timer", comp |-> t.owner, id |-> t.id, nr |-> t.nr,
                  removed |-> Numbers(notifications[t.owner])
                                 \ Numbers(WithoutId(notifications[t.owner], t.id))]
    /\ UNCHANGED <<uiNow, shown, toasts, toastIdCounter, typingUsers, lastTyping>>

\* the ids of the toasts of a list
ToastIds(list) == {list[i].id : i \in 1..Len(list)}

\* the duration addToast is called with: showError passes duration || 8000
PassedDuration(type, duration) ==
    IF type = "error" /\ duration = 0 THEN ErrorDuration ELSE duration

\* the toast takes its id from the clock instead of the counter
ShowToast_IdIsDateNow(type, duration) ==
    LET d == IF PassedDuration(type, duration) = 0 THEN DefaultDuration
             ELSE PassedDuration(type, duration)
    IN  /\ toastIdCounter < MaxToasts
        /\ uiNow + d <= MaxUiClock
        /\ toastIdCounter' = toastIdCounter + 1
        /\ toasts' = Append(toasts, [id |-> uiNow + 1, type |-> type,
                                     timestamp |-> uiNow, duration |-> d])
        /\ timers' = timers \cup {[owner |-> "toast", id |-> uiNow + 1,
                                    nr |-> uiNow + 1, due |-> uiNow + d]}
        /\ lastUi' = [op |-> "show", comp |-> "toast", id |-> uiNow + 1,
                      nr |-> uiNow + 1, removed |-> {}]
        /\ UNCHANGED <<uiNow, notifications, shown, typingUsers, lastTyping>>

\* showSuccess, showError, showWarning, showInfo: addToast
ShowToast(type, duration) ==
    LET d == IF PassedDuration(type, duration) = 0 THEN DefaultDuration
             ELSE PassedDuration(type, duration)
        id == toastIdCounter + 1
    IN  /\ toastIdCounter < MaxToasts
        /\ uiNow + d <= MaxUiClock
        /\ toastIdCounter' = id
        /\ toasts' = Append(toasts, [id |-> id, type |-> type,
                                     timestamp |-> uiNow, duration |-> d])
        /\ timers' = timers \cup {[owner |-> "toast", id |-> id, nr |-> id,
                                    due |-> uiNow + d]}
        /\ lastUi' = [op |-> "show", comp |-> "toast", id |-> id, nr |-> id, removed |-> {}]
        /\ UNCHANGED <<uiNow, notifications, shown, typingUsers, lastTyping>>

\* removeToast(id), called by the toast's close button or with any other id
RemoveToast(id) ==
    /\ toasts' = WithoutId(toasts, id)
    /\ lastUi' = [op |-> "remove", comp |-> "toast", id |-> id, nr |-> 0,
                  removed |-> ToastIds(toasts) \ ToastIds(WithoutId(toasts, id))]
    /\ UNCHANGED <<uiNow, timers, notifications, shown, toastIdCounter,
                   typingUsers, lastTyping>>

\* the setTimeout callback of addToast
ToastTimer(t) ==
    /\ t \in timers
    /\ t.owner = "toast"
    /\ t.due <= uiNow
    /\ timers' = timers \ {t}
    /\ toasts' = WithoutId(toasts, t.id)
    /\ lastUi' = [op |-> "timer", comp |-> "toast", id |-> t.id, nr |-> t.nr,
                  removed |-> ToastIds(toasts) \ ToastIds(WithoutId(toasts, t.id))]
    /\ UNCHANGED <<uiNow, notifications, shown, toastIdCounter, typingUsers, lastTyping>>

ClearAll ==
    /\ toasts' = << >>
    /\ lastUi' = [op |-> "clearAll", comp |-> "toast", id |-> Undefined, nr |-> 0,
                  removed |-> ToastIds(toasts)]
    /\ UNCHANGED <<uiNow, timers, notifications, shown, toastIdCounter,
                   typingUsers, lastTyping>>

\* the rooms a user_typing event may name: one is the public room's id
TypingRoom == Room

\* Object.keys(typingUsers)
TypingKeys == DOMAIN typingUsers

\* typingUsers[roomId] || []
TypingList(r) == IF r \in TypingKeys THEN typingUsers[r] ELSE << >>

\* typingList.indexOf(username): 0 stands for -1
IndexOf(list, x) ==
    IF \E i \in 1..Len(list) : list[i] = x
    THEN CHOOSE i \in 1..Len(list) : list[i] = x /\ \A j \in 1..(i - 1) : list[j] # x
    ELSE 0

\* typingList.splice(index, 1)
Splice(list, index) == [i \in 1..(Len(list) - 1) |-> IF i < index THEN list[i] ELSE list[i + 1]]

\* typingUsers with key r set to list, or deleted when the list is empty
WithTyping(r, list) ==
    [k \in (IF list = << >> THEN TypingKeys \ {r} ELSE TypingKeys \cup {r}) |->
        IF k = r THEN list ELSE typingUsers[k]]

\* the empty list is left under its key
HandleTypingIndicator_KeepsEmptyLists(r, username, isTyping) ==
    LET typingList == TypingList(r)
        index == IndexOf(typingList, username)
        list == IF isTyping /\ index = 0 THEN Append(typingList, username)
                ELSE IF ~isTyping /\ index > 0 THEN Splice(typingList, index)
                ELSE typingList
    IN  /\ typingUsers' = [k \in TypingKeys \cup {r} |-> IF k = r THEN list ELSE typingUsers[k]]
        /\ lastTyping' = [lastTyping EXCEPT ![r][username] = isTyping]
        /\ lastUi' = [op |-> "user_typing", comp |-> r, id |-> Undefined, nr |-> 0,
                      removed |-> Range(typingList) \ Range(list)]
        /\ UNCHANGED <<uiNow, timers, notifications, shown, toasts, toastIdCounter>>

\* ChatComponent.handleTypingIndicator
HandleTypingIndicator(r, username, isTyping) ==
    LET typingList == TypingList(r)
        index == IndexOf(typingList, username)
        list == IF isTyping /\ index = 0 THEN Append(typingList, username)
                ELSE IF ~isTyping /\ index > 0 THEN Splice(typingList, index)
                ELSE typingList
    IN  /\ typingUsers' = WithTyping(r, list)
        /\ lastTyping' = [lastTyping EXCEPT ![r][username] = isTyping]
        /\ lastUi' = [op |-> "user_typing", comp |-> r, id |-> Undefined, nr |-> 0,
                      removed |-> Range(typingList) \ Range(list)]
        /\ UNCHANGED <<uiNow, timers, notifications, shown, toasts, toastIdCounter>>

Init == SrvInit /\ DbInit /\ ChatInit /\ AuthInit /\ UiInit

Next ==
    \/ Tick /\ UNCHANGED <<dbVars, procVars, cliVars>>
    \/ \E s \in Conn, u \in User : Connect(s, u) /\ UNCHANGED <<dbVars, procVars, cliVars>>
    \/ \E s \in Conn : GetGeneralMessages(s) /\ UNCHANGED <<dbVars, procVars, cliVars>>
    \/ \E s \in Conn : SendGeneralMessage(s, Text) /\ UNCHANGED <<dbVars, procVars, cliVars>>
    \/ \E s \in Conn : GetOnlineUsers(s) /\ UNCHANGED <<dbVars, procVars, cliVars>>
    \/ \E s \in Conn, r \in Room : JoinRoom(s, r) /\ UNCHANGED <<dbVars, procVars, cliVars>>
    \/ \E s \in Conn, r \in Room : LeaveRoom(s, r) /\ UNCHANGED <<dbVars, procVars, cliVars>>
    \/ \E s \in Conn : Disconnect(s) /\ UNCHANGED <<dbVars, procVars, cliVars>>

Spec == Init /\ [][Next]_vars

NextChatDb ==
    \/ \E ty \in ChatType, u \in User : Create(ty, u) /\ UNCHANGED <<srvVars, procVars, cliVars, messages>>
    \/ \E c \in ChatId, u \in User : AddMember(c, u) /\ UNCHANGED <<srvVars, procVars, cliVars, messages>>
    \/ \E c \in ChatId, u \in User : RemoveMember(c, u) /\ UNCHANGED <<srvVars, procVars, cliVars, messages>>
    \/ \E c \in ChatId : DeleteChat(c) /\ UNCHANGED <<srvVars, procVars, cliVars, messages>>
    \/ \E a \in User, b \in User : FindPrivateChat(a, b) /\ UNCHANGED <<srvVars, procVars, cliVars, messages>>

InitChatDb == Init /\ now = WelcomeId + 1

SpecChatDb == InitChatDb /\ [][NextChatDb]_vars

\* the named rooms (every room but the Public one)
NamedRoom == Room \ {GENERAL}

\* every step of the room runs records the rooms it started from
RoomStep == roomsBefore' = rooms /\ UNCHANGED <<dbVars, cliVars, running, handshake>>

NextRooms ==
    \/ \E s \in RoomConn, u \in User : Connect(s, u) /\ RoomStep
    \/ \E s \in RoomConn, r \in NamedRoom : JoinRoom(s, r) /\ RoomStep
    \/ \E s \in RoomConn, r \in NamedRoom : LeaveRoom(s, r) /\ RoomStep
    \/ \E s \in RoomConn, r \in NamedRoom : SendRoomMessage(s, r) /\ RoomStep
    \/ \E s \in RoomConn, t \in User : SendPrivateMessage(s, t) /\ RoomStep
    \/ \E s \in RoomConn : Disconnect(s) /\ RoomStep
    \/ \E s \in RoomConn : CloseAgain(s) /\ RoomStep

\* the chat row behind a named room: the client passes the chat id as roomId
ChatOfRoom(r) == IF r = "room1" THEN 1 ELSE NULL

\* the tables as seeded before the server starts: the chat of every named room
\* exists, and any set of users are its members
SeededRooms(members) ==
    /\ chats = {[id |-> ChatOfRoom(r), chat_type |-> "room",
                 created_by |-> "u1", is_active |-> TRUE] : r \in NamedRoom}
    /\ chat_members = {[chat_id |-> ChatOfRoom(r), user_id |-> u, role |-> "member"] :
                          r \in NamedRoom, u \in members}
    /\ nextChatId = Cardinality(NamedRoom) + 1
    /\ found = NothingFound
    /\ lastDb = [op |-> "init", chat |-> NULL, ok |-> TRUE]
    /\ messages = << >>

InitRooms ==
    /\ SrvInit
    /\ ChatInit
    /\ AuthInit
    /\ UiInit
    /\ now = WelcomeId + 1
    /\ \E members \in SUBSET User : SeededRooms(members)

SpecRooms == InitRooms /\ [][NextRooms]_vars

NextInput ==
    \/ \E s \in Conn, token \in Token \cup {NoToken} :
          Handshake(s, token) /\ UNCHANGED <<dbVars, cliVars, running, roomsBefore>>
    \/ \E s \in Conn, content \in Content :
          SendGeneralMessage(s, content) /\ UNCHANGED <<dbVars, procVars, cliVars>>
    \/ \E s \in Conn, ev \in PayloadEvent :
          MalformedEvent(s, ev) /\ UNCHANGED <<dbVars, cliVars, handshake, roomsBefore>>
    \/ \E s \in Conn : Disconnect(s) /\ UNCHANGED <<dbVars, procVars, cliVars>>

SpecInput == InitChatDb /\ [][NextInput]_vars

\* a step that involves the server: tables and process state stay
ChatStep == UNCHANGED <<dbVars, procVars, authVars, uiVars>>

NextGeneralChat ==
    \/ \E s \in RoomConn : BrowserConnect(s) /\ ChatStep
    \/ \E s \in RoomConn : PeerConnect(s) /\ ChatStep
    \/ \E s \in RoomConn : ChatSend(s) /\ ChatStep
    \/ BrowserDisconnect /\ ChatStep
    \/ NgOnInit /\ ChatStep
    \/ Receive /\ ChatStep
    \/ FallbackTimer /\ ChatStep
    \/ FlushBuffered /\ ChatStep

SpecGeneralChat == InitChatDb /\ [][NextGeneralChat]_vars

\* a step of the authentication holders: the server and the component stay
AuthStep == UNCHANGED <<srvVars, procVars, dbVars, chatVars, uiVars>>

NextClientAuth ==
    \/ \E svc \in Service, token \in JwtToken, ok \in BOOLEAN : Login(svc, token, ok) /\ AuthStep
    \/ \E svc \in Service : Logout(svc) /\ AuthStep
    \/ \E svc \in Service, outcome \in FetchOutcome : LogoutSettles(svc, outcome) /\ AuthStep
    \/ \E outcome \in HandshakeOutcome : SocketConnect(outcome) /\ AuthStep
    \/ SocketDisconnect /\ AuthStep

InitClientAuth ==
    /\ SrvInit /\ DbInit /\ ChatInit /\ UiInit
    /\ now = WelcomeId + 1
    /\ AuthInitStored

SpecClientAuth == InitClientAuth /\ [][NextClientAuth]_vars

\* a step of the browser's lists: the server and the services stay
UiStep == UNCHANGED <<srvVars, procVars, dbVars, chatVars, authVars>>

NextNotifications ==
    \/ UiTick /\ UiStep
    \/ \E c \in ChatComponent : ShowNotification(c) /\ UiStep
    \/ \E c \in ChatComponent, id \in 0..MaxUiClock : RemoveNotification(c, id) /\ UiStep
    \/ \E t \in timers : NotificationTimer(t) /\ UiStep

SpecNotifications == InitChatDb /\ [][NextNotifications]_vars

NextToasts ==
    \/ UiTick /\ UiStep
    \/ \E type \in ToastType, duration \in Duration : ShowToast(type, duration) /\ UiStep
    \/ \E id \in 0..MaxToasts : RemoveToast(id) /\ UiStep
    \/ \E t \in timers : ToastTimer(t) /\ UiStep
    \/ ClearAll /\ UiStep

\* time passes and a timer that is due runs
SpecToasts ==
    /\ InitChatDb
    /\ [][NextToasts]_vars
    /\ WF_vars(UiTick /\ UiStep)
    /\ WF_vars(\E t \in timers : ToastTimer(t) /\ UiStep)

\* the usernames of the user_typing events
TypingUser == User \cup {"u3"}

NextTyping ==
    \/ \E r \in TypingRoom, username \in TypingUser, isTyping \in BOOLEAN :
          HandleTypingIndicator(r, username, isTyping) /\ UiStep

SpecTyping == InitChatDb /\ [][NextTyping]_vars

NextMessages ==
    \/ \E u \in User \cup {NoUser}, c \in ChatId \cup {NULL}, content \in Content :
          CreateMessage(u, c, content) /\ UNCHANGED <<srvVars, procVars, cliVars>>
    \/ \E c \in ChatId, u \in User : AddMember(c, u) /\ UNCHANGED <<srvVars, procVars, cliVars, messages>>
    \/ \E c \in ChatId, u \in User : RemoveMember(c, u) /\ UNCHANGED <<srvVars, procVars, cliVars, messages>>
    \/ \E c \in ChatId : DeleteChat(c) /\ UNCHANGED <<srvVars, procVars, cliVars, messages>>

SpecMessages == InitRooms /\ [][NextMessages]_vars

(***************************************************************************)
(* Properties of the real-time server (checked under Spec).                *)
(***************************************************************************)
\* the emit calls of the last handler that carry event ev
EmitsOf(ev) == {i \in 1..Len(emitted) : emitted[i].ev = ev}

\* the number of emit calls of the last handler that announce ev about identity u
Announced(ev, u) == Cardinality({i \in EmitsOf(ev) : emitted[i].data = u})

\* C1: the server emits exactly one online notification (user_joined) for an
\* identity when its open-connection count goes from 0 to 1, exactly one
\* offline notification (user_left) when it goes from 1 to 0, and none when a
\* further connection opens or a connection closes while another stays open.
C1_PresenceOncePerTransition ==
    \A u \in User :
        /\ Announced("user_joined", u) =
             (IF lastOp.op = "connect" /\ lastOp.user = u /\ OpenCount(u) = 1 THEN 1 ELSE 0)
        /\ Announced("user_left", u) =
             (IF lastOp.op = "disconnect" /\ lastOp.user = u /\ OpenCount(u) = 0 THEN 1 ELSE 0)

\* the entries of the history that clients sent (all but the welcome message)
LiveMessages == 2..Len(generalMessages)

\* C2: every recipient of a general message sees the same number on it, and
\* the numbers of the successive messages of the room start at the pinned
\* first value and go up by exactly one per message.
C2_SequenceNumbers ==
    /\ \A i \in EmitsOf("general_message") :
          emitted[i].data.id = generalMessages[Len(generalMessages)].id
    /\ \A i \in LiveMessages :
          generalMessages[i].id = generalMessages[i - 1].id + 1

\* C3: two messages that two senders send to the same room, however close
\* in time, get distinct, consecutive ordering identifiers, in the order of
\* the history that every recipient observes.
C3_ConcurrentSendsOrdered ==
    \A i \in LiveMessages, j \in LiveMessages :
        (i < j /\ generalMessages[i].sender # generalMessages[j].sender) =>
            /\ generalMessages[i].id # generalMessages[j].id
            /\ generalMessages[i].id < generalMessages[j].id
            /\ (j = i + 1 => generalMessages[j].id = generalMessages[i].id + 1)

\* C4: no event is delivered to a connection whose disconnect has been
\* processed: every recipient of every emit call of a handler is a socket that
\* is open when the handler has run, whatever ran before it.
C4_NoDeliveryAfterDisconnect ==
    \A i \in 1..Len(emitted) :
        /\ Range(emitted[i].to) \subseteq Open
        /\ Range(emitted[i].to) \cap closed = {}

\* C4 witness: a message is sent after another connection has disconnected,
\* and is delivered to somebody.
C4_Witness ==
    /\ lastOp.op = "send_general_message"
    /\ closed # {}
    /\ \E i \in EmitsOf("general_message") : emitted[i].to # << >>

\* C5: every open connection is a member of the Public room 'general', after
\* any join_room / leave_room it issued.
C5_AlwaysInGeneral ==
    \A c \in Open : GENERAL \in rooms[c]

\* C6: a message sent to the Public room is delivered exactly once to every
\* connection open at the time of the send, the sender's included, and names
\* the sending identity.
C6_PublicSendReachesAll ==
    lastOp.op = "send_general_message" =>
        /\ Cardinality(EmitsOf("general_message")) = 1
        /\ \A i \in EmitsOf("general_message") :
              /\ \A c \in Open : Count(emitted[i].to, c) = 1
              /\ emitted[i].data.sender = lastOp.user

\* C7: a presence notification about an identity is never delivered to a
\* connection of that identity.
C7_NoSelfPresence ==
    \A i \in EmitsOf("user_joined") \cup EmitsOf("user_left") :
        \A k \in 1..Len(emitted[i].to) : userId[emitted[i].to[k]] # emitted[i].data

\* C8 as stated: an identity is in an online-users list the server emits
\* exactly if it has an open connection.
C8_OnlineIffConnected ==
    \A i \in EmitsOf("online_users") \cup EmitsOf("online_users_updated") :
        \A u \in User : (u \in Range(emitted[i].data)) <=> (OpenCount(u) > 0)

\* C8 amended: an identity is in an online_users_updated list exactly if it has
\* an open connection, and in an online_users list exactly if it has an open
\* connection and is not the identity of the socket the list is sent to.
C8_OnlineListsMatchConnections ==
    /\ \A i \in EmitsOf("online_users_updated") :
          \A u \in User : (u \in Range(emitted[i].data)) <=> (OpenCount(u) > 0)
    /\ \A i \in EmitsOf("online_users") :
          \A u \in User :
              (u \in Range(emitted[i].data)) <=>
                  (OpenCount(u) > 0 /\ u # userId[emitted[i].to[1]])

\* C8 witness: a second identity connects; the online_users list it is sent
\* names the identity already online and not its own, and the
\* online_users_updated list names both.
C8_Witness ==
    /\ lastOp.op = "connect"
    /\ \E i \in EmitsOf("online_users") : emitted[i].data # << >>
    /\ \E i \in EmitsOf("online_users_updated") : Len(emitted[i].data) > 1

\* C26: every online_users and online_users_updated list the server emits
\* names each identity at most once, and an online_users list never names
\* the identity of the connection it is sent to.
C26_OnlineListsNameEachIdentityOnce ==
    /\ \A i \in EmitsOf("online_users") \cup EmitsOf("online_users_updated") :
          \A j, k \in 1..Len(emitted[i].data) :
              emitted[i].data[j] = emitted[i].data[k] => j = k
    /\ \A i \in EmitsOf("online_users") :
          userId[emitted[i].to[1]] \notin Range(emitted[i].data)

\* C23: the general-chat history is append-only and replayed faithfully:
\* it starts with the welcome message; a send_general_message appends exactly
\* one entry, the sender's, and no other step changes the history; every
\* general_messages list the server emits is the whole history, in order.
C23_HistoryAppendOnly ==
    /\ [](/\ generalMessages[1].id = WelcomeId
          /\ generalMessages[1].sender = "system"
          /\ \A i \in EmitsOf("general_messages") : emitted[i].data = generalMessages)
    /\ [][IF lastOp'.op = "send_general_message"
          THEN /\ Len(generalMessages') = Len(generalMessages) + 1
               /\ SubSeq(generalMessages', 1, Len(generalMessages)) = generalMessages
               /\ generalMessages'[Len(generalMessages')].sender = lastOp'.user
          ELSE generalMessages' = generalMessages]_vars

\* C23 witness: after two sends the history is replayed on request.
C23_Witness ==
    /\ lastOp.op = "get_general_messages"
    /\ Len(generalMessages) > 2
    /\ \E i \in EmitsOf("general_messages") : Len(emitted[i].data) > 2

(***************************************************************************)
(* Properties of the chat tables (checked under SpecChatDb).               *)
(***************************************************************************)
\* the active private chats both a and b are members of
PrivateChatsOf(a, b) ==
    {c \in chats : /\ c.chat_type = "private"
                   /\ c.is_active
                   /\ IsChatMember(chat_members, c.id, a)
                   /\ IsChatMember(chat_members, c.id, b)}

\* ChatModel.addMember on a user who is a member already adds no second row:
\* chat_members holds at most one row per (chat, user)
MembershipRowsUnique ==
    \A m1 \in chat_members, m2 \in chat_members :
        (m1.chat_id = m2.chat_id /\ m1.user_id = m2.user_id) => m1 = m2

\* C9: two different identities share at most one active private chat, after
\* any sequence of chat creations and member additions.
C9_OnePrivateChatPerPair ==
    \A a \in User, b \in User :
        a # b => Cardinality(PrivateChatsOf(a, b)) <= 1

\* C10: resolving the private chat of (A, B) and of (B, A) on the same tables
\* gives the same chat.
C10_PrivateChatSymmetric ==
    \A p \in UserPair :
        (found[p] # NotAsked /\ found[<<p[2], p[1]>>] # NotAsked)
            => found[p] = found[<<p[2], p[1]>>]

(***************************************************************************)
(* Properties of named rooms and private sends (checked under SpecRooms).  *)
(***************************************************************************)
\* how many times the last handler delivered event ev to connection c
Delivered(ev, c) ==
    Cardinality({ik \in EmitsOf(ev) \X RoomConn :
                    ik[2] <= Len(emitted[ik[1]].to) /\ emitted[ik[1]].to[ik[2]] = c})

\* the open connections of identity u that have joined room r
JoinedConns(u, r) == {c \in Open : userId[c] = u /\ r \in rooms[c]}

\* C11: when several connections of one identity have joined a named room
\* and another member sends a message to that room, each of those
\* connections is delivered the message exactly once, with one and the same
\* ordering identifier on every copy.
C11_RoomSendReachesEveryConnection ==
    (lastOp.op = "send_room_message" /\ lastOp.room \in rooms[lastOp.conn]) =>
        \A u \in User \ {lastOp.user} :
            Cardinality(JoinedConns(u, lastOp.room)) > 1 =>
                /\ \A c \in JoinedConns(u, lastOp.room) : Delivered("room_message", c) = 1
                /\ \A i \in EmitsOf("room_message"), j \in EmitsOf("room_message") :
                      emitted[i].data.id = emitted[j].data.id

\* C12: a private message addressed to identity T is delivered to every open
\* connection of T and of the sender, whether or not it joined a room for the
\* pair, and to no connection of any other identity.
C12_PrivateSendReachesBothEnds ==
    lastOp.op = "send_private_message" =>
        \A c \in Open :
            Delivered("private_message", c) =
                (IF userId[c] \in {lastOp.user, lastOp.recipientId} THEN 1 ELSE 0)

\* C13: a connection is a live member of a named room only if its identity is
\* a durable member of that room (a row of chat_members); a join_room by an
\* identity that is not leaves the live membership as it was.
C13_JoinOnlyForDurableMembers ==
    \A c \in Open, r \in NamedRoom :
        r \in rooms[c] => IsChatMember(chat_members, ChatOfRoom(r), userId[c])

\* C18: every (room, connection) membership entry belongs to an open
\* connection, and a connection whose disconnect has been processed is a
\* member of no room.
C18_MembersAreOpen ==
    /\ \A c \in RoomConn : rooms[c] # {} => c \in Open
    /\ \A c \in closed : rooms[c] = {}

\* C18 witness: a connection that had joined a named room has disconnected
\* while another connection is open.
C18_Witness ==
    /\ lastOp.op = "disconnect"
    /\ roomsBefore[lastOp.conn] \cap NamedRoom # {}
    /\ lastOp.conn \in closed
    /\ Open # {}

C20_JoinIdempotent ==
    (lastOp.op = "join_room" /\ lastOp.room \in roomsBefore[lastOp.conn]) =>
        /\ rooms = roomsBefore
        /\ emitted = << Emit("room_joined", ToSelf(lastOp.conn), lastOp.room) >>

\* C20 witness: a connection has joined a named room it was a member of.
C20_Witness ==
    /\ lastOp.op = "join_room"
    /\ lastOp.room \in NamedRoom
    /\ lastOp.room \in roomsBefore[lastOp.conn]

\* C21: a leave_room for a room the connection is not a member of is a
\* no-op: the rooms of every connection are as before and nothing is
\* emitted to any other connection.
C21_LeaveOfNonMemberIsNoOp ==
    (lastOp.op = "leave_room" /\ lastOp.room \notin roomsBefore[lastOp.conn]) =>
        /\ rooms = roomsBefore
        /\ \A i \in 1..Len(emitted) : Range(emitted[i].to) \subseteq {lastOp.conn}

\* C21 witness: a connection has left a named room it had not joined, while
\* another connection is a member of that room.
C21_Witness ==
    /\ lastOp.op = "leave_room"
    /\ lastOp.room \notin roomsBefore[lastOp.conn]
    /\ \E c \in Open \ {lastOp.conn} : lastOp.room \in rooms[c]

(***************************************************************************)
(* Properties of createMessage (checked under SpecMessages).               *)
(***************************************************************************)
\* C14: a send into an existing chat that is not Public by an identity that
\* is not a member of it is rejected with 403 (NotAMember): no message is
\* stored and the chat and its members are unchanged.
C14_NonMemberSendRejected ==
    [][(/\ lastDb'.op = "createMessage"
        /\ lastDb'.user # NoUser
        /\ lastDb'.content # << >>
        /\ \E chat \in chats : /\ chat.id = lastDb'.chat
                               /\ chat.is_active
                               /\ chat.chat_type # "public"
        /\ ~IsChatMember(chat_members, lastDb'.chat, lastDb'.user))
       => (/\ lastDb'.status = 403
           /\ messages' = messages
           /\ chats' = chats
           /\ chat_members' = chat_members)]_vars

\* C14 witness: a user who is not a member of the seeded room, which has
\* another member, sent a text into it and got 403.
C14_Witness ==
    /\ lastDb.op = "createMessage"
    /\ lastDb.content = <<"h", "i">>
    /\ lastDb.status = 403
    /\ ~IsChatMember(chat_members, lastDb.chat, lastDb.user)
    /\ MemberRows(chat_members, lastDb.chat) # {}

\* C22: createMessage stores the message and answers 201 whenever the
\* authenticated user is a member of the existing active chat and chat_id
\* and a content (here: one that is not blank) are given, and it answers 403
\* only when the user is not a member.
C22_MemberSendAccepted ==
    (/\ lastDb.op = "createMessage"
     /\ lastDb.user # NoUser
     /\ lastDb.chat # NULL
     /\ Trim(lastDb.content) # << >>
     /\ FindById(chats, lastDb.chat) # {}) =>
        /\ IsChatMember(chat_members, lastDb.chat, lastDb.user) =>
              /\ lastDb.status = 201
              /\ messages # << >>
              /\ messages[Len(messages)].sender_id = lastDb.user
        /\ lastDb.status = 403 => ~IsChatMember(chat_members, lastDb.chat, lastDb.user)

(***************************************************************************)
(* Properties of the server under any client input (checked under          *)
(* SpecInput).                                                             *)
(***************************************************************************)
\* C15: a send whose content is empty after trimming is rejected: no message
\* with such a content is in the history, none is broadcast, and the send
\* that carried it appended nothing and used up no ordering identifier.
C15_BlankContentRejected ==
    /\ \A i \in 1..Len(generalMessages) : Trim(generalMessages[i].content) # << >>
    /\ \A i \in EmitsOf("general_message") : Trim(emitted[i].data.content) # << >>

\* C16: an event that arrives without its payload (send_general_message,
\* join_room, leave_room) is answered with an error to the connection that
\* sent it; that connection stays open and the server process goes on
\* running.
C16_MalformedEventRejected ==
    lastOp.op = "malformed" =>
        /\ running
        /\ lastOp.conn \in Open
        /\ \E i \in EmitsOf("error") : emitted[i].to = ToSelf(lastOp.conn)

\* the token is one jwt.verify accepts
ValidToken(token) == token # NoToken /\ token.signed /\ ~token.expired

Shown(list) == [i \in 1..Len(list) |->
                  [id |-> list[i].id, sender |-> list[i].sender, content |-> list[i].content]]

\* C24: the component's message list converges to the server's history:
\* once a history has been applied, the browser is connected and nothing is
\* in flight to it, the list holds every message the server stores, each
\* once and in the server's order.
C24_ListConvergesToHistory ==
    (messagesLoaded /\ cliSocket # 0 /\ inbox = << >> /\ ~buffered) =>
        Shown(chatMessages) = Shown(generalMessages)


(***************************************************************************)
(* Properties of the client's authentication (checked under               *)
(* SpecClientAuth).                                                        *)
(***************************************************************************)
\* C25: every connect() of SocketService that performs a handshake after a
\* successful login or register presents the token that login or register
\* stored.
C25_HandshakeUsesLatestToken ==
    (lastAuth.op = "connect" /\ lastAuth.token # Null /\ loggedIn # Null) =>
        lastAuth.token = loggedIn


\* C28: when logout() of either service has settled, whatever became of its
\* request, the service's token and user are null, localStorage holds
\* neither item and the service's authenticatedSubject holds false; and in
\* every state isAuthenticated() of a service is true exactly when its
\* token is not null.
C28_LogoutEndsLoggedOut ==
    /\ lastAuth.op = "logout" =>
          /\ authToken[lastAuth.svc] = Null
          /\ currentUser[lastAuth.svc] = Null
          /\ localStorage = NoItems
          /\ ~authenticatedSubject[lastAuth.svc]
    /\ \A svc \in Service : authenticatedSubject[svc] <=> (authToken[svc] # Null)

\* C28 witness: a logout whose request threw has settled while the other
\* service still holds its session.
C28_Witness ==
    /\ lastAuth.op = "logout"
    /\ lastAuth.outcome = "threw"
    /\ \E svc \in Service \ {lastAuth.svc} : authenticatedSubject[svc]


(***************************************************************************)
(* Properties of the browser's timed lists.                                *)
(***************************************************************************)
\* C27: a notification is in the list no longer than 5 seconds: the timer
\* set when it was shown removes it, and removes no other notification.
C27_NotificationRemovedByItsTimer ==
    /\ \A c \in ChatComponent : \A i \in 1..Len(notifications[c]) :
          uiNow <= notifications[c][i].timestamp + NotificationDelay
    /\ lastUi.op = "timer" =>
          /\ lastUi.nr \notin Numbers(notifications[lastUi.comp])
          /\ lastUi.removed \subseteq {lastUi.nr}


\* C29: every toast gets an id no toast before it had, so the toasts of the
\* list and the pending timers have distinct ids and a timer removes the
\* toast it was set for and no other; a toast is in the list no longer than
\* its duration, and every added toast is eventually absent; removeToast
\* with an id that no toast of the list has leaves the list as it was.
C29_ToastRemovedByItsTimer ==
    /\ [](/\ \A i, j \in 1..Len(toasts) : toasts[i].id = toasts[j].id => i = j
          /\ \A t, u \in timers : t.id = u.id => t = u
          /\ \A i \in 1..Len(toasts) : uiNow <= toasts[i].timestamp + toasts[i].duration
          /\ lastUi.op = "timer" =>
                /\ lastUi.nr \notin ToastIds(toasts)
                /\ lastUi.removed \subseteq {lastUi.nr})
    /\ [][/\ toastIdCounter' # toastIdCounter =>
                ToastIds(toasts') \ ToastIds(toasts) \subseteq
                    (1..toastIdCounter') \ (1..toastIdCounter)
          /\ (lastUi'.op = "remove" /\ lastUi'.id \notin ToastIds(toasts)) =>
                toasts' = toasts]_vars
    /\ \A id \in 1..MaxToasts : (id \in ToastIds(toasts)) ~> (id \notin ToastIds(toasts))

\* C29 witness: the timer of the first toast has removed it while a later
\* toast stays in the list.
C29_Witness ==
    /\ lastUi.op = "timer"
    /\ lastUi.comp = "toast"
    /\ lastUi.removed = {1}
    /\ toasts # << >>


\* C30: after any sequence of user_typing events the typing list of a room
\* holds exactly the usernames whose most recent event for the room had
\* isTyping = true, each once, and typingUsers has no key with an empty list.
C30_TypingListsFollowLastEvent ==
    /\ \A r \in TypingRoom :
          /\ Range(TypingList(r)) = {u \in TypingUser : lastTyping[r][u]}
          /\ \A i, j \in 1..Len(TypingList(r)) :
                TypingList(r)[i] = TypingList(r)[j] => i = j
    /\ \A k \in TypingKeys : typingUsers[k] # << >>

\* C30 witness: the only user typing in a room has stopped, another room
\* still has two users typing.
C30_Witness ==
    /\ lastUi.op = "user_typing"
    /\ lastUi.comp \notin TypingKeys
    /\ lastUi.removed # {}
    /\ \E r \in TypingKeys : Len(typingUsers[r]) = 2

====
